---- MODULE Spec2Model ----
(***************************************************************************)
(* Opsin: the 3D LUT core (src/src/lut3d.rs) and the worker that drives it *)
(* (src/src/main.rs).                                                      *)
(*                                                                         *)
(* Representation.                                                         *)
(*  - A .cube text is a sequence of lines; a line is the sequence of its   *)
(*    whitespace-separated tokens (what line.trim().split_whitespace()     *)
(*    yields); a token is a string.  starts_with(K) is read on the first   *)
(*    token.                                                               *)
(*  - An f32 is held as an exact number of tenths (1.0 is 10); parsing is  *)
(*    a lexicon from token to value, failing on every other token.  f32    *)
(*    rounding is not modelled: the sampling arithmetic is exact.          *)
(*  - A colour channel has ChanBits bits (8 in the source), so the         *)
(*    precomputed table has (2^ChanBits)^3 * 3 bytes (256^3*3 in the       *)
(*    source) and 255.0 becomes ChanMax.                                   *)
(***************************************************************************)
EXTENDS Integers, Sequences, FiniteSets, TLC

\* ------------------------------------------------------------------ bounds
\* Bits per colour channel (u8 in the source).
ChanBits == 2
\* Number of Start clicks that spawn a worker.
MaxStarts == 3
\* Number of files under the image input directory.
MaxFiles == 2
\* Largest LUT_3D_SIZE of the generated cube texts.
MaxSize == 3
\* Number of write(2) calls fs::write needs for the whole table.
NChunks == 2

RECURSIVE Pow(_, _)
Pow(b, e) == IF e = 0 THEN 1 ELSE b * Pow(b, e - 1)

Radix == Pow(2, ChanBits)
ChanMax == Radix - 1
Chan == 0..ChanMax
\* 256 * 256 * 256 * 3
TableLen == Radix * Radix * Radix * 3

Min(a, b) == IF a < b THEN a ELSE b
Max(a, b) == IF a > b THEN a ELSE b

\* ------------------------------------------------------------------ tokens
\* f32::INFINITY: the value of the token inf, which s.parse::<f32>() accepts.
\* No finite token of the lexicon has this many tenths.
Inf == 1000

\* s.parse::<f32>(): the value in tenths, or -1 when the token is no number.
ParseF32(s) ==
  CASE s = "0" -> 0
    [] s = "inf" -> Inf
    [] s = "0.2" -> 2
    [] s = "0.5" -> 5
    [] s = "0.8" -> 8
    [] s = "1" -> 10
    [] s = "2" -> 20
    [] s = "3" -> 30
    [] s = "4" -> 40
    [] OTHER -> -1

\* s.parse::<usize>(): the value, or -1 when the token is no unsigned integer.
ParseUsize(s) ==
  CASE s = "0" -> 0
    [] s = "1" -> 1
    [] s = "2" -> 2
    [] s = "3" -> 3
    [] s = "4" -> 4
    [] OTHER -> -1

\* s.parse::<f32>().unwrap_or_else(|_| default)
ParseF32Or(s, default) == IF ParseF32(s) < 0 THEN default ELSE ParseF32(s)

\* line.starts_with(kw), on the first token of the trimmed line
StartsWith(line, kw) == Len(line) > 0 /\ line[1] = kw

\* line.starts_with('#'): the comment tokens of the lexicon
IsComment(line) == Len(line) > 0 /\ line[1] \in {"#", "#c"}

\* .skip(1).map(parse or default).collect()
ParseTail(line, default) ==
  [i \in 1..(Len(line) - 1) |-> ParseF32Or(line[i + 1], default)]

\* ------------------------------------------------------------------ parser
\* The parser's locals: size, data, domain_min, domain_max (lut3d.rs 45-48).
ParserInit ==
  [size |-> 0, data |-> <<>>, domain_min |-> <<0, 0, 0>>, domain_max |-> <<10, 10, 10>>]

\* The skip branch (lut3d.rs 94).  SkipLineNoTitle is the faulty variant that
\* forgets TITLE lines.
SkipLineNoTitle(line) == Len(line) = 0 \/ IsComment(line)
SkipLine(line) == Len(line) = 0 \/ IsComment(line) \/ StartsWith(line, "TITLE")

\* The data branch (lut3d.rs 97-111): a token that is no number becomes 0.0,
\* and the line is pushed only when it has exactly three tokens.
DataLine(st, line) ==
  LET vals == [i \in 1..Len(line) |-> ParseF32Or(line[i], 0)]
  IN IF Len(vals) = 3 THEN [st EXCEPT !.data = Append(@, vals)] ELSE st

\* One iteration of the loop over reader.lines() (lut3d.rs 51-112).
ParseLine(st, line) ==
  IF StartsWith(line, "LUT_3D_SIZE")
    THEN IF Len(line) >= 2
           THEN [st EXCEPT !.size = Max(ParseUsize(line[2]), 0)]
           ELSE st
  ELSE IF StartsWith(line, "DOMAIN_MIN")
    THEN LET parts == ParseTail(line, 0)
         IN IF Len(parts) = 3 THEN [st EXCEPT !.domain_min = parts] ELSE st
  ELSE IF StartsWith(line, "DOMAIN_MAX")
    THEN LET parts == ParseTail(line, 10)
         IN IF Len(parts) = 3 THEN [st EXCEPT !.domain_max = parts] ELSE st
  ELSE IF SkipLine(line)
    THEN st
  ELSE DataLine(st, line)

\* The loop over the lines (lut3d.rs 51-112); each line's state is computed
\* before the next line is read.
RECURSIVE ParseLines(_, _)
ParseLines(st, lines) ==
  IF lines = <<>> THEN st
  ELSE LET next == ParseLine(st, Head(lines))
           rest == Tail(lines)
       IN IF next.size >= 0 /\ Len(rest) >= 0 THEN ParseLines(next, rest) ELSE next

NoLut == [kind |-> "none", size |-> 0, data |-> <<>>,
          domain_min |-> <<0, 0, 0>>, domain_max |-> <<10, 10, 10>>, msg |-> ""]
LutErr(m) == [NoLut EXCEPT !.kind = "err", !.msg = m]

\* The validation after the loop (lut3d.rs 114-139).  ValidateAtLeast is the
\* faulty variant that accepts more samples than size^3.
ValidateAtLeast(st) ==
  IF st.size = 0 THEN LutErr("LUT_3D_SIZE is missing or invalid.")
  ELSE IF Len(st.data) < st.size * st.size * st.size THEN LutErr("LUT data size mismatch.")
  ELSE [kind |-> "ok", size |-> st.size, data |-> st.data,
        domain_min |-> st.domain_min, domain_max |-> st.domain_max, msg |-> ""]
\* ValidateCountFirst is the faulty variant that compares the count first.
ValidateCountFirst(st) ==
  IF Len(st.data) # st.size * st.size * st.size THEN LutErr("LUT data size mismatch.")
  ELSE IF st.size = 0 THEN LutErr("LUT_3D_SIZE is missing or invalid.")
  ELSE [kind |-> "ok", size |-> st.size, data |-> st.data,
        domain_min |-> st.domain_min, domain_max |-> st.domain_max, msg |-> ""]
Validate(st) ==
  IF st.size = 0 THEN LutErr("LUT_3D_SIZE is missing or invalid.")
  ELSE IF Len(st.data) # st.size * st.size * st.size THEN LutErr("LUT data size mismatch.")
  ELSE [kind |-> "ok", size |-> st.size, data |-> st.data,
        domain_min |-> st.domain_min, domain_max |-> st.domain_max, msg |-> ""]

\* Lut3D::from_cube on the text of the file (the file opens and reads).
from_cube(text) == Validate(ParseLines(ParserInit, text))

\* ------------------------------------------------------------------ sampling
\* A ratio is <<n, d>> with d > 0 and 0 <= n <= d; <<0, 0>> is NaN.
\* map (lut3d.rs 211): ((val - min) / (max - min)).clamp(0.0, 1.0) for
\* val = v / 255.0, with min and max in tenths.  Division by zero gives
\* +inf, -inf or NaN; the clamp turns the infinities into 1 and 0.
\* MapReflect is the faulty variant that reflects a negative value instead of
\* clamping it to 0.
MapReflect(v, mn, mx) ==
  LET num0 == 10 * v - mn * ChanMax
      den0 == ChanMax * (mx - mn)
      num == IF den0 < 0 THEN -num0 ELSE num0
      den == IF den0 < 0 THEN -den0 ELSE den0
  IN IF den = 0
       THEN (IF num0 > 0 THEN <<1, 1>> ELSE IF num0 < 0 THEN <<0, 1>> ELSE <<0, 0>>)
       ELSE <<Min(IF num < 0 THEN -num ELSE num, den), den>>
Map(v, mn, mx) ==
  LET num0 == 10 * v - mn * ChanMax
      den0 == ChanMax * (mx - mn)
      num == IF den0 < 0 THEN -num0 ELSE num0
      den == IF den0 < 0 THEN -den0 ELSE den0
  IN IF den = 0
       THEN (IF num0 > 0 THEN <<1, 1>> ELSE IF num0 < 0 THEN <<0, 1>> ELSE <<0, 0>>)
       ELSE <<Max(0, Min(num, den)), den>>

IsNaN(q) == q[2] = 0

\* rx = rn * f with f = size - 1, as a numerator over q[2]
Scaled(q, size) == q[1] * (size - 1)
\* rx.floor() as usize (NaN casts to 0)
Floor0(q, size) == IF IsNaN(q) THEN 0 ELSE Scaled(q, size) \div q[2]
\* (r0 + 1).min(size - 1)
Corner1(q, size) == Min(Floor0(q, size) + 1, size - 1)
\* dr = rx - r0 as f32, as a numerator over q[2] (NaN is carried by IsNaN)
Frac(q, size) == IF IsNaN(q) THEN 0 ELSE Scaled(q, size) % q[2]

\* idx (lut3d.rs 237)
GridIdx(lut, r, g, b) == r + g * lut.size + b * lut.size * lut.size
\* self.data[idx(r, g, b)]
Corner(lut, r, g, b) == lut.data[GridIdx(lut, r, g, b) + 1]

\* A sample is finite or +inf; an interpolated value may also be NaN.
\* Fin is the numerator the finite arithmetic carries for it.
Class(x) == IF x = Inf THEN "inf" ELSE "fin"
Fin(x) == IF x = Inf THEN 0 ELSE x
HasInf(v) == v[1] = Inf \/ v[2] = Inf \/ v[3] = Inf
Classes(v) == [k \in 1..3 |-> Class(v[k])]
Fins(v) == IF HasInf(v) THEN [k \in 1..3 |-> Fin(v[k])] ELSE v

\* lerp3 (lut3d.rs 250-257) on numerators: a, b over a common denominator e,
\* t = tn / td; the result is over e * td.  Lerp3Swapped is the faulty variant
\* that exchanges the two weights.
Lerp3Swapped(a, b, tn, td) == [k \in 1..3 |-> a[k] * tn + b[k] * (td - tn)]
Lerp3(a, b, tn, td) == [k \in 1..3 |-> a[k] * (td - tn) + b[k] * tn]

\* The class of a * (1.0 - t) + b * t for 0 <= t < 1: inf * 0 is NaN.
LerpClass(ca, cb, tn) ==
  [k \in 1..3 |->
     IF ca[k] = "nan" \/ cb[k] = "nan" \/ (cb[k] = "inf" /\ tn = 0) THEN "nan"
     ELSE IF ca[k] = "inf" \/ cb[k] = "inf" THEN "inf"
     ELSE "fin"]

\* (c.clamp(0.0, 1.0) * 255.0) as u8, for c = cn / cd: the cast truncates.
ToByte(cn, cd) == (Max(0, Min(cn, cd)) * ChanMax) \div cd

\* The same conversion of a value of any class: inf clamps to 1.0, NaN stays
\* NaN through the clamp and casts to 0.
ToByteOf(cls, cn, cd) ==
  IF cls = "nan" THEN 0 ELSE IF cls = "inf" THEN ChanMax ELSE ToByte(cn, cd)

\* The grid coordinates of the two corners on each axis (lut3d.rs 211-229).
Normalized(lut, r, g, b) ==
  << Map(r, lut.domain_min[1], lut.domain_max[1]),
     Map(g, lut.domain_min[2], lut.domain_max[2]),
     Map(b, lut.domain_min[3], lut.domain_max[3]) >>
Corner0s(lut, r, g, b) ==
  [k \in 1..3 |-> Floor0(Normalized(lut, r, g, b)[k], lut.size)]
Corner1s(lut, r, g, b) ==
  [k \in 1..3 |-> Corner1(Normalized(lut, r, g, b)[k], lut.size)]

\* The flat indices of the eight corners read (lut3d.rs 240-247).
CornerIdxs(lut, r, g, b) ==
  LET lo == Corner0s(lut, r, g, b)
      hi == Corner1s(lut, r, g, b)
  IN { GridIdx(lut, x, y, z) : x \in {lo[1], hi[1]}, y \in {lo[2], hi[2]}, z \in {lo[3], hi[3]} }

\* c of lut3d.rs 272 before the conversion: numerators c over cd, the class
\* of each channel, and whether a normalized coordinate is NaN.  Eight finite
\* corners interpolate to a finite value, so the classes are worked out only
\* when a corner holds inf.
TrilinearValue(lut, r, g, b) ==
  LET norm == Normalized(lut, r, g, b)
      rn == norm[1]
      gn == norm[2]
      bn == norm[3]
      r0 == Floor0(rn, lut.size)
      g0 == Floor0(gn, lut.size)
      b0 == Floor0(bn, lut.size)
      r1 == Corner1(rn, lut.size)
      g1 == Corner1(gn, lut.size)
      b1 == Corner1(bn, lut.size)
      dr == Frac(rn, lut.size)
      dg == Frac(gn, lut.size)
      db == Frac(bn, lut.size)
      c000 == Corner(lut, r0, g0, b0)
      c001 == Corner(lut, r0, g0, b1)
      c010 == Corner(lut, r0, g1, b0)
      c011 == Corner(lut, r0, g1, b1)
      c100 == Corner(lut, r1, g0, b0)
      c101 == Corner(lut, r1, g0, b1)
      c110 == Corner(lut, r1, g1, b0)
      c111 == Corner(lut, r1, g1, b1)
      c00 == Lerp3(Fins(c000), Fins(c100), dr, rn[2])
      c01 == Lerp3(Fins(c001), Fins(c101), dr, rn[2])
      c10 == Lerp3(Fins(c010), Fins(c110), dr, rn[2])
      c11 == Lerp3(Fins(c011), Fins(c111), dr, rn[2])
      k00 == LerpClass(Classes(c000), Classes(c100), dr)
      k01 == LerpClass(Classes(c001), Classes(c101), dr)
      k10 == LerpClass(Classes(c010), Classes(c110), dr)
      k11 == LerpClass(Classes(c011), Classes(c111), dr)
      c0 == Lerp3(c00, c10, dg, gn[2])
      c1 == Lerp3(c01, c11, dg, gn[2])
      k0 == LerpClass(k00, k10, dg)
      k1 == LerpClass(k01, k11, dg)
  IN [nan |-> IsNaN(rn) \/ IsNaN(gn) \/ IsNaN(bn),
      c |-> Lerp3(c0, c1, db, bn[2]),
      cls |-> IF HasInf(c000) \/ HasInf(c001) \/ HasInf(c010) \/ HasInf(c011)
                   \/ HasInf(c100) \/ HasInf(c101) \/ HasInf(c110) \/ HasInf(c111)
                THEN LerpClass(k0, k1, db)
                ELSE <<"fin", "fin", "fin">>,
      cd |-> 10 * rn[2] * gn[2] * bn[2]]

\* Lut3D::apply_lut_trilinear (lut3d.rs 204-279)
apply_lut_trilinear(lut, r, g, b) ==
  LET v == TrilinearValue(lut, r, g, b)
  IN IF v.nan
       THEN <<0, 0, 0>>
       ELSE [k \in 1..3 |-> ToByteOf(v.cls[k], v.c[k], v.cd)]

\* The bytes the conversion can give when c is computed in f32: every
\* operation rounds, so the computed c lies within a rounding error of the
\* exact cn / cd, and the truncating cast gives the byte below when the exact
\* product c * 255 is a whole number.
ByteOutcomes(cls, cn, cd) ==
  IF cls # "fin" THEN {ToByteOf(cls, cn, cd)}
  ELSE IF (Max(0, Min(cn, cd)) * ChanMax) % cd = 0 /\ ToByte(cn, cd) > 0 /\ cn <= cd
    THEN {ToByte(cn, cd) - 1, ToByte(cn, cd)}
  ELSE {ToByte(cn, cd)}

\* The outputs apply_lut_trilinear can give under f32 rounding: channel k of
\* the interpolated value v, then the three channels together.
ChannelOutcomes(v, k) ==
  UNION { ByteOutcomes(w[1], w[2], w[3]) : w \in {<<v.cls[k], v.c[k], v.cd>>} }
TrilinearOutcomes(lut, r, g, b) ==
  UNION { IF v.nan
            THEN {<<0, 0, 0>>}
            ELSE { <<x, y, z>> : x \in ChannelOutcomes(v, 1),
                                 y \in ChannelOutcomes(v, 2),
                                 z \in ChannelOutcomes(v, 3) } :
          v \in {TrilinearValue(lut, r, g, b)} }

\* (rn * f).round().clamp(0.0, f) as usize (lut3d.rs 166-168): round is half
\* away from zero, NaN casts to 0.  RoundOfSize is the faulty variant that
\* scales by size instead of size - 1 and does not clamp.
RoundOfSize(q, size) ==
  IF IsNaN(q) THEN 0 ELSE (2 * q[1] * size + q[2]) \div (2 * q[2])
Round(q, size) ==
  IF IsNaN(q) THEN 0
  ELSE Max(0, Min((2 * Scaled(q, size) + q[2]) \div (2 * q[2]), size - 1))

\* idx of lut3d.rs 171
NearestIdx(lut, r, g, b) ==
  LET norm == Normalized(lut, r, g, b)
  IN GridIdx(lut, Round(norm[1], lut.size), Round(norm[2], lut.size), Round(norm[3], lut.size))

\* Lut3D::apply_lut (lut3d.rs 151-191)
apply_lut(lut, r, g, b) ==
  LET idx == NearestIdx(lut, r, g, b)
  IN IF idx >= Len(lut.data)
       THEN <<0, 0, 0>>
       ELSE [k \in 1..3 |-> ToByteOf(Class(lut.data[idx + 1][k]), Fin(lut.data[idx + 1][k]), 10)]

\* ------------------------------------------------------------------ table
\* The n-th iteration (from 0) of the generation loops (lut3d.rs 306-308):
\* r_val outermost, b_val innermost.  LoopInputBOuter is the faulty variant
\* that nests them the other way.
LoopInputBOuter(n) == <<n % Radix, (n \div Radix) % Radix, n \div (Radix * Radix)>>
LoopInput(n) == <<n \div (Radix * Radix), (n \div Radix) % Radix, n % Radix>>

\* result of each iteration of the loops, in order (lut3d.rs 306-310); the
\* concatenation makes it a sequence that is worked out once.
LoopResults(lut) ==
  [n \in 1..(TableLen \div 3) |->
     LET in == LoopInput(n - 1)
     IN apply_lut_trilinear(lut, in[1], in[2], in[3])] \o <<>>

\* The table the loops push (lut3d.rs 303-316): three bytes per iteration.
GenTable(lut) ==
  CHOOSE t \in { [i \in 1..TableLen |-> result[((i - 1) \div 3) + 1][((i - 1) % 3) + 1]] :
                   result \in {LoopResults(lut)} } : TRUE

\* x << k and a | b on usize
Shl(x, k) == x * Pow(2, k)
RECURSIVE BitOr(_, _)
BitOr(a, b) ==
  IF a = 0 THEN b
  ELSE IF b = 0 THEN a
  ELSE 2 * BitOr(a \div 2, b \div 2) + (IF a % 2 = 1 \/ b % 2 = 1 THEN 1 ELSE 0)

\* idx of apply_precomputed (lut3d.rs 347): ((r << 16) | (g << 8) | b) * 3.
\* PackedIdxNoBlue is the faulty variant that packs two channels only.
PackedIdxNoBlue(r, g, b) == BitOr(Shl(r, 2 * ChanBits), Shl(g, ChanBits)) * 3
PackedIdx(r, g, b) == BitOr(BitOr(Shl(r, 2 * ChanBits), Shl(g, ChanBits)), b) * 3

\* Lut3D::apply_precomputed (lut3d.rs 344-349): the offsets it reads and the
\* bytes it returns; indexing past the end of the slice panics.
apply_precomputed(tbl, r, g, b) ==
  LET idx == PackedIdx(r, g, b)
  IN IF idx + 2 < Len(tbl)
       THEN [in |-> <<r, g, b>>, reads |-> <<idx, idx + 1, idx + 2>>, panic |-> FALSE,
             out |-> <<tbl[idx + 1], tbl[idx + 2], tbl[idx + 3]>>]
       ELSE [in |-> <<r, g, b>>, reads |-> <<idx, idx + 1, idx + 2>>, panic |-> TRUE,
             out |-> <<>>]

\* ------------------------------------------------------------------ inputs
\* The token of a grid coordinate c of a cube of size n: 0, 1/2 or 1.
CoordTok(c, n) == IF c = 0 THEN "0" ELSE IF c = n - 1 THEN "1" ELSE "0.5"

SizeTok(n) ==
  CASE n = 0 -> "0" [] n = 1 -> "1" [] n = 2 -> "2" [] n = 3 -> "3" [] OTHER -> "4"

\* The k-th data line (from 0) of the cube that maps each grid point to its
\* own coordinates, first channel varying fastest.
IdentityLine(k, n) ==
  <<CoordTok(k % n, n), CoordTok((k \div n) % n, n), CoordTok(k \div (n * n), n)>>

IdentityCube(n) ==
  <<<<"LUT_3D_SIZE", SizeTok(n)>>>> \o [k \in 1..(n * n * n) |-> IdentityLine(k - 1, n)]

DomainLines ==
  << <<"DOMAIN_MIN", "0.2", "0.2", "0.2">>, <<"DOMAIN_MAX", "0.8", "0.8", "0.8">> >>

\* Lines a text may carry besides its size line and its data lines.
IgnoredLines ==
  { <<>>, <<"#", "note">>, <<"TITLE", "my", "lut">>,
    <<"DOMAIN_MIN", "0.2", "0.2", "0.2">>, <<"DOMAIN_MAX", "0.8", "0.8", "0.8">> }

OddLines ==
  { <<"DOMAIN_MIN", "0.2">>, <<"DOMAIN_MAX", "abc", "0.8", "0.8">>,
    <<"0", "abc", "1">>, <<"0.5", "0.5", "0.5">>, <<"0", "1">>, <<"0", "1", "0", "1">>,
    <<"LUT_3D_SIZE", "2">>, <<"LUT_3D_SIZE">>, <<"LUT_3D_SIZE", "abc">>,
    <<"LUT_3D_SIZE", "0">> }

InsertAt(t, i, l) == SubSeq(t, 1, i - 1) \o <<l>> \o SubSeq(t, i, Len(t))
RemoveAt(t, i) == SubSeq(t, 1, i - 1) \o SubSeq(t, i + 1, Len(t))
ReplaceAt(t, i, l) == [t EXCEPT ![i] = l]

BaseTexts == { IdentityCube(n) : n \in 1..MaxSize }

\* The texts the parser is run on: each base text, and each with one line
\* inserted, removed or replaced.
Texts ==
  BaseTexts
  \cup { InsertAt(t[1], t[2], l) :
           t \in { <<u, i>> \in BaseTexts \X (1..(MaxSize * MaxSize * MaxSize + 2)) :
                     i <= Len(u) + 1 },
           l \in IgnoredLines \cup OddLines }
  \cup { RemoveAt(t[1], t[2]) :
           t \in { <<u, i>> \in BaseTexts \X (1..(MaxSize * MaxSize * MaxSize + 1)) :
                     i <= Len(u) } }
  \cup { ReplaceAt(t[1], t[2], l) :
           t \in { <<u, i>> \in BaseTexts \X (1..(MaxSize * MaxSize * MaxSize + 1)) :
                     i <= Len(u) },
           l \in OddLines }

\* The LUT files of the cache scenarios.
CubeTexts ==
  { IdentityCube(1),
    IdentityCube(2),
    IdentityCube(3),
    DomainLines \o IdentityCube(2),
    ReplaceAt(IdentityCube(2), 3, <<"0.5", "0.2", "0.8">>),
    RemoveAt(IdentityCube(2), 2) }

\* The grids the sampling functions are run on: each cube under each domain.
\* The domains are the default one, proper ones, one with min = max and a
\* reversed one; the cubes are the identity cubes, two with an inf sample and
\* one with samples outside [0, 1].
DomainOf(mn, mx) == << <<"DOMAIN_MIN", mn, mn, mn>>, <<"DOMAIN_MAX", mx, mx, mx>> >>

EngineDomains ==
  { <<>>, DomainLines, DomainOf("0.5", "1"), DomainOf("0", "0.5"), DomainOf("1", "2"),
    DomainOf("0", "0"), DomainOf("1", "1"), DomainOf("1", "0") }

EngineCubes ==
  { IdentityCube(n) : n \in 1..MaxSize }
  \cup { ReplaceAt(IdentityCube(2), 3, <<"inf", "inf", "inf">>),
         ReplaceAt(IdentityCube(2), 9, <<"0.5", "inf", "0">>),
         ReplaceAt(IdentityCube(2), 2, <<"2", "0.5", "0.2">>) }

EngineTexts == { d \o c : d \in EngineDomains, c \in EngineCubes }

Procs == {"w1", "w2"}

\* The worker threads the application may spawn, in the order of spawning.
Threads == 1..MaxStarts

\* The files under the input directory: directory below the input root, stem,
\* extension ("" for a name without one) and whether the content decodes as
\* an image.
File(d, s, e, i) == [dir |-> d, stem |-> s, ext |-> e, image |-> i]
InputFiles ==
  { File(<<>>, "a", "jpg", TRUE), File(<<>>, "b", "JPG", TRUE), File(<<>>, "c", "jpeg", TRUE),
    File(<<"sub">>, "d", "png", TRUE), File(<<>>, "e", "txt", FALSE),
    File(<<>>, "README", "", FALSE), File(<<>>, "g", "jpg", FALSE),
    File(<<"sub">>, "h", "PNG", TRUE) }

\* The directory listings WalkDir can return: up to MaxFiles distinct files in
\* any order.
RECURSIVE Listings(_)
Listings(n) ==
  IF n = 0 THEN {<<>>}
  ELSE Listings(n - 1)
       \cup { Append(l, f) : l \in { m \in Listings(n - 1) : Len(m) = n - 1 }, f \in InputFiles }

DistinctListings ==
  { l \in Listings(MaxFiles) : \A i \in 1..Len(l), j \in 1..Len(l) : i # j => l[i] # l[j] }

\* The LUT files of the application scenarios: one that parses, one that does not.
GuiCubes == { IdentityCube(1), <<<<"0", "0", "0">>>> }

\* A cache file found at the start that this LUT's generation did not write.
ShortFile == <<ChanMax, ChanMax, ChanMax>>
ForeignFile == [i \in 1..TableLen |-> ChanMax]

\* ------------------------------------------------------------------ state
VARIABLES
  cube,          \* the text of the selected .cube file
  cacheAtStart,  \* what the cache path held at the start: absent, short, foreign
  dirExists,     \* the parent directory of the cache path exists
  fileExists,    \* a file exists at the cache path
  fileBytes,     \* its contents
  pc,            \* each worker's position
  lut,           \* each worker's from_cube result
  branch,        \* which branch of load_or_generate_map the worker took
  table,         \* the generated table (local of load_or_generate_map)
  off,           \* chunks of the table written so far by the worker's fs::write
  ret,           \* what load_or_generate_map returned to the worker
  px,            \* the worker's last apply_precomputed call
  gui,           \* OpsinApp: is_processing, the completion receiver, workers started
  thr,           \* each spawned thread: its position and its end of the channel
  img            \* one process_images call: the files found, the loop index, the outputs

vars == <<cube, cacheAtStart, dirExists, fileExists, fileBytes,
          pc, lut, branch, table, off, ret, px, gui, thr, img>>
lutVars == <<cube, cacheAtStart, dirExists, fileExists, fileBytes,
             pc, lut, branch, table, off, ret, px>>
appVars == <<gui, thr, img>>

NoRet == [kind |-> "none", bytes |-> <<>>, msg |-> ""]
RetOk(b) == [kind |-> "ok", bytes |-> b, msg |-> ""]
RetErr(m) == [kind |-> "err", bytes |-> <<>>, msg |-> m]
NoPx == [in |-> <<>>, reads |-> <<>>, panic |-> FALSE, out |-> <<>>]

WorkersInit ==
  /\ pc = [p \in Procs |-> "start"]
  /\ lut = [p \in Procs |-> NoLut]
  /\ branch = [p \in Procs |-> "none"]
  /\ table = [p \in Procs |-> <<>>]
  /\ off = [p \in Procs |-> 0]
  /\ ret = [p \in Procs |-> NoRet]
  /\ px = [p \in Procs |-> NoPx]

\* OpsinApp::new (main.rs 150-160): not processing, no receiver; no thread
\* spawned yet.
GuiIdle ==
  /\ gui = [is_processing |-> FALSE, receiver |-> 0, started |-> 0]
  /\ thr = [t \in Threads |-> [pc |-> "unspawned", sent |-> FALSE, dropped |-> FALSE]]

NoImages == [pc |-> "idle", exists |-> FALSE, files |-> <<>>, i |-> 1, out |-> {}]

AppInit == GuiIdle /\ img = NoImages

\* The worker is spawned with a LUT file and a cache path (main.rs 215-228).
Init ==
  /\ cube \in CubeTexts
  /\ cacheAtStart \in {"absent", "short", "foreign"}
  /\ fileExists = (cacheAtStart # "absent")
  /\ fileBytes = (CASE cacheAtStart = "short" -> ShortFile
                    [] cacheAtStart = "foreign" -> ForeignFile
                    [] OTHER -> <<>>)
  /\ dirExists \in BOOLEAN
  /\ fileExists => dirExists
  /\ WorkersInit
  /\ AppInit

\* The parser alone, on every text of Texts.
ParseInit ==
  /\ cube \in Texts
  /\ cacheAtStart = "absent"
  /\ fileExists = FALSE
  /\ fileBytes = <<>>
  /\ dirExists = FALSE
  /\ WorkersInit
  /\ AppInit

\* ------------------------------------------------------------------ worker
\* Lut3D::from_cube(lut_file) in the worker (main.rs 238): on an error the
\* worker skips the table and the images.
FromCube(p) ==
  /\ pc[p] = "start"
  /\ lut' = [lut EXCEPT ![p] = from_cube(cube)]
  /\ pc' = [pc EXCEPT ![p] = IF from_cube(cube).kind = "ok" THEN "parsed" ELSE "done"]
  /\ UNCHANGED <<cube, cacheAtStart, dirExists, fileExists, fileBytes,
                 branch, table, off, ret, px>>
  /\ UNCHANGED appVars

\* path.exists() (lut3d.rs 298)
PathExists(p) ==
  /\ pc[p] = "parsed"
  /\ branch' = [branch EXCEPT ![p] = IF fileExists THEN "load" ELSE "generate"]
  /\ pc' = [pc EXCEPT ![p] = IF fileExists THEN "load" ELSE "generate"]
  /\ UNCHANGED <<cube, cacheAtStart, dirExists, fileExists, fileBytes,
                 lut, table, off, ret, px>>
  /\ UNCHANGED appVars

\* fs::read(path) (lut3d.rs 300): the bytes as they are.  FsReadChecked is
\* the variant that checks the length first.
FsReadChecked(exists, bytes) ==
  IF ~exists THEN RetErr("NotFound")
  ELSE IF Len(bytes) # TableLen THEN RetErr("CorruptTable")
  ELSE RetOk(bytes)
FsRead(exists, bytes) == IF exists THEN RetOk(bytes) ELSE RetErr("NotFound")

Load(p) ==
  /\ pc[p] = "load"
  /\ ret' = [ret EXCEPT ![p] = FsRead(fileExists, fileBytes)]
  /\ pc' = [pc EXCEPT ![p] = "returned"]
  /\ UNCHANGED <<cube, cacheAtStart, dirExists, fileExists, fileBytes,
                 lut, branch, table, off, px>>
  /\ UNCHANGED appVars

\* The generation loops (lut3d.rs 303-316).  GenerateOntoFile is the faulty
\* variant whose table starts from the bytes found at the cache path.
GenerateOntoFile(p) ==
  /\ pc[p] = "generate"
  /\ table' = [table EXCEPT ![p] = fileBytes \o GenTable(lut[p])]
  /\ pc' = [pc EXCEPT ![p] = "mkdir"]
  /\ UNCHANGED <<cube, cacheAtStart, dirExists, fileExists, fileBytes,
                 lut, branch, off, ret, px>>
  /\ UNCHANGED appVars
Generate(p) ==
  /\ pc[p] = "generate"
  /\ table' = [table EXCEPT ![p] = GenTable(lut[p])]
  /\ pc' = [pc EXCEPT ![p] = "mkdir"]
  /\ UNCHANGED <<cube, cacheAtStart, dirExists, fileExists, fileBytes,
                 lut, branch, off, ret, px>>
  /\ UNCHANGED appVars

\* fs::create_dir_all(parent)? (lut3d.rs 319-321)
CreateDirAll(p) ==
  /\ pc[p] = "mkdir"
  /\ dirExists' = TRUE
  /\ pc' = [pc EXCEPT ![p] = "create"]
  /\ UNCHANGED <<cube, cacheAtStart, fileExists, fileBytes,
                 lut, branch, table, off, ret, px>>
  /\ UNCHANGED appVars

\* create_dir_all fails (the directory is missing and cannot be made)
CreateDirFail(p) ==
  /\ pc[p] = "mkdir"
  /\ ~dirExists
  /\ ret' = [ret EXCEPT ![p] = RetErr("create_dir_all")]
  /\ table' = [table EXCEPT ![p] = <<>>]
  /\ pc' = [pc EXCEPT ![p] = "returned"]
  /\ UNCHANGED <<cube, cacheAtStart, dirExists, fileExists, fileBytes,
                 lut, branch, off, px>>
  /\ UNCHANGED appVars

\* fs::write(path, &table) (lut3d.rs 324), first step: File::create opens the
\* final path itself, creating it or truncating it to length 0.
FileCreate(p) ==
  /\ pc[p] = "create"
  /\ dirExists
  /\ fileExists' = TRUE
  /\ fileBytes' = <<>>
  /\ off' = [off EXCEPT ![p] = 0]
  /\ pc' = [pc EXCEPT ![p] = "write"]
  /\ UNCHANGED <<cube, cacheAtStart, dirExists, lut, branch, table, ret, px>>
  /\ UNCHANGED appVars

\* The bytes of chunk k (from 0) of a buffer: [ChunkStart(k), ChunkStart(k+1))
ChunkStart(k) == (k * TableLen) \div NChunks

\* write(2) of chunk at the descriptor's offset start: a write past the end
\* of the file leaves a hole of zero bytes.
WriteAt(bytes, start, chunk) ==
  [i \in 1..Max(Len(bytes), start + Len(chunk)) |->
     IF i > start /\ i <= start + Len(chunk) THEN chunk[i - start]
     ELSE IF i <= Len(bytes) THEN bytes[i]
     ELSE 0]

\* fs::write, next step: write_all hands the next part of the buffer to write(2)
\* until all of it is written.  WriteChunkOnce is the faulty variant that
\* calls write(2) once and takes the short write for the whole buffer.
WriteChunkOnce(p) ==
  /\ pc[p] = "write"
  /\ off[p] < NChunks
  /\ fileBytes' = WriteAt(fileBytes, ChunkStart(off[p]),
                          SubSeq(table[p], ChunkStart(off[p]) + 1, ChunkStart(off[p] + 1)))
  /\ off' = [off EXCEPT ![p] = NChunks]
  /\ UNCHANGED <<cube, cacheAtStart, dirExists, fileExists,
                 pc, lut, branch, table, ret, px>>
  /\ UNCHANGED appVars
WriteChunk(p) ==
  /\ pc[p] = "write"
  /\ off[p] < NChunks
  /\ fileBytes' = WriteAt(fileBytes, ChunkStart(off[p]),
                          SubSeq(table[p], ChunkStart(off[p]) + 1, ChunkStart(off[p] + 1)))
  /\ off' = [off EXCEPT ![p] = @ + 1]
  /\ UNCHANGED <<cube, cacheAtStart, dirExists, fileExists,
                 pc, lut, branch, table, ret, px>>
  /\ UNCHANGED appVars

\* fs::write fails part-way (disk full, I/O error): the ? returns the error
\* (lut3d.rs 324) and nothing removes what was written.
WriteFail(p) ==
  /\ pc[p] = "write"
  /\ off[p] < NChunks
  /\ ret' = [ret EXCEPT ![p] = RetErr("write")]
  /\ table' = [table EXCEPT ![p] = <<>>]
  /\ pc' = [pc EXCEPT ![p] = "returned"]
  /\ UNCHANGED <<cube, cacheAtStart, dirExists, fileExists, fileBytes,
                 lut, branch, off, px>>
  /\ UNCHANGED appVars

\* Ok(table) (lut3d.rs 325)
ReturnTable(p) ==
  /\ pc[p] = "write"
  /\ off[p] = NChunks
  /\ ret' = [ret EXCEPT ![p] = RetOk(table[p])]
  /\ table' = [table EXCEPT ![p] = <<>>]
  /\ pc' = [pc EXCEPT ![p] = "returned"]
  /\ UNCHANGED <<cube, cacheAtStart, dirExists, fileExists, fileBytes,
                 lut, branch, off, px>>
  /\ UNCHANGED appVars

\* One pixel of process_images (main.rs 246): Lut3D::apply_precomputed on the
\* returned table; a panic ends the worker thread.
ApplyPrecomputed(p) ==
  /\ pc[p] = "returned"
  /\ ret[p].kind = "ok"
  /\ \E r \in Chan, g \in Chan, b \in Chan :
       /\ px' = [px EXCEPT ![p] = apply_precomputed(ret[p].bytes, r, g, b)]
       /\ pc' = [pc EXCEPT ![p] =
                   IF apply_precomputed(ret[p].bytes, r, g, b).panic
                     THEN "panicked" ELSE "applied"]
  /\ UNCHANGED <<cube, cacheAtStart, dirExists, fileExists, fileBytes,
                 lut, branch, table, off, ret>>
  /\ UNCHANGED appVars

\* A caller samples the parsed grid in nearest mode at some input
\* (lut3d.rs 151-191); oob records whether the bounds check of 174-181 fired.
ApplyLut(p) ==
  /\ pc[p] = "parsed"
  /\ \E r \in Chan, g \in Chan, b \in Chan :
       px' = [px EXCEPT ![p] =
                [in |-> <<r, g, b>>,
                 flat |-> NearestIdx(lut[p], r, g, b),
                 oob |-> NearestIdx(lut[p], r, g, b) >= Len(lut[p].data),
                 nearest |-> apply_lut(lut[p], r, g, b),
                 corners |-> {},
                 trilinear |-> <<>>,
                 rounded |-> {}]]
  /\ pc' = [pc EXCEPT ![p] = "nearest"]
  /\ UNCHANGED <<cube, cacheAtStart, dirExists, fileExists, fileBytes,
                 lut, branch, table, off, ret>>
  /\ UNCHANGED appVars

\* The caller samples the same input in trilinear mode (lut3d.rs 204-279).
ApplyLutTrilinear(p) ==
  /\ pc[p] = "nearest"
  /\ px' = [px EXCEPT ![p] =
               [px[p] EXCEPT
                  !.corners = CornerIdxs(lut[p], px[p].in[1], px[p].in[2], px[p].in[3]),
                  !.trilinear = apply_lut_trilinear(lut[p], px[p].in[1], px[p].in[2], px[p].in[3]),
                  !.rounded = TrilinearOutcomes(lut[p], px[p].in[1], px[p].in[2], px[p].in[3])]]
  /\ pc' = [pc EXCEPT ![p] = "sampled"]
  /\ UNCHANGED <<cube, cacheAtStart, dirExists, fileExists, fileBytes,
                 lut, branch, table, off, ret>>
  /\ UNCHANGED appVars

\* The worker ends and a later Start click spawns the next one with the same
\* LUT file and cache path (main.rs 211-228).
Restart(p) ==
  /\ pc[p] \in {"returned", "applied", "panicked", "done"}
  /\ pc' = [pc EXCEPT ![p] = "start"]
  /\ lut' = [lut EXCEPT ![p] = NoLut]
  /\ branch' = [branch EXCEPT ![p] = "none"]
  /\ table' = [table EXCEPT ![p] = <<>>]
  /\ off' = [off EXCEPT ![p] = 0]
  /\ ret' = [ret EXCEPT ![p] = NoRet]
  /\ px' = [px EXCEPT ![p] = NoPx]
  /\ UNCHANGED <<cube, cacheAtStart, dirExists, fileExists, fileBytes>>
  /\ UNCHANGED appVars

\* ------------------------------------------------------------------ process_images
\* s.to_lowercase() on the extensions of the lexicon
ToLowercase(e) ==
  CASE e = "JPG" -> "jpg" [] e = "PNG" -> "png" [] e = "JPEG" -> "jpeg" [] OTHER -> e

\* path.strip_prefix(input_dir) and output_dir.join(rel) (file_handler.rs 59-75)
StripPrefix(f) == [dir |-> f.dir, name |-> <<f.stem, f.ext>>]
Join(root, rel) == [root |-> root, dir |-> rel.dir, name |-> rel.name]
\* out_path.with_file_name(format!("{}_RAW", file_name)) (file_handler.rs 90-91)
WithRawName(path) == [path EXCEPT !.name = Append(path.name, "_RAW")]

\* An output file: where it is and what was written there.
Output(path, what) == [path |-> path, what |-> what]

\* if !input_dir.exists() { log; return } and the directory walk
\* (file_handler.rs 35-54)
ImagesWalk ==
  /\ img.pc = "start"
  /\ img' = [img EXCEPT !.pc = IF img.exists THEN "loop" ELSE "done"]
  /\ UNCHANGED <<lutVars, gui, thr>>

\* The body of the loop for one file (file_handler.rs 57-123).  An image
\* that does not decode panics at the unwrap of line 95, after the _RAW copy.
ImagesFile ==
  /\ img.pc = "loop"
  /\ img.i <= Len(img.files)
  /\ LET f == img.files[img.i]
         out_path == Join("out", StripPrefix(f))
         ext == ToLowercase(f.ext)
     IN IF f.ext # "" /\ ext \in {"jpg", "jpeg", "png"}
          THEN IF f.image
                 THEN img' = [img EXCEPT
                                !.out = @ \cup {Output(WithRawName(out_path), "original"),
                                                Output(out_path, "processed")},
                                !.i = @ + 1]
                 ELSE img' = [img EXCEPT
                                !.out = @ \cup {Output(WithRawName(out_path), "original")},
                                !.pc = "panicked"]
          ELSE IF f.ext # ""
                 THEN img' = [img EXCEPT !.out = @ \cup {Output(out_path, "original")},
                                         !.i = @ + 1]
                 ELSE img' = [img EXCEPT !.i = @ + 1]
  /\ UNCHANGED <<lutVars, gui, thr>>

\* The loop ends and process_images returns.
ImagesReturn ==
  /\ img.pc = "loop"
  /\ img.i > Len(img.files)
  /\ img' = [img EXCEPT !.pc = "done"]
  /\ UNCHANGED <<lutVars, gui, thr>>

\* ------------------------------------------------------------------ OpsinApp
\* receiver.try_recv() on the channel of thread t
TryRecv(t) ==
  IF thr[t].sent THEN "Ok" ELSE IF thr[t].dropped THEN "Disconnected" ELSE "Empty"

\* UpdateNoFlag is the faulty variant of update that spawns the worker
\* without setting is_processing.
UpdateNoFlag(clicked) ==
  LET finished == /\ gui.is_processing
                  /\ gui.receiver # 0
                  /\ TryRecv(gui.receiver) \in {"Ok", "Disconnected"}
      processing == gui.is_processing /\ ~finished
      receiver == IF finished THEN 0 ELSE gui.receiver
  IN /\ clicked => (~processing /\ gui.started < MaxStarts)
     /\ IF clicked
          THEN /\ gui' = [is_processing |-> FALSE, receiver |-> gui.started + 1,
                          started |-> gui.started + 1]
               /\ thr' = [thr EXCEPT ![gui.started + 1].pc = "lut"]
          ELSE /\ gui' = [gui EXCEPT !.is_processing = processing, !.receiver = receiver]
               /\ thr' = thr
     /\ UNCHANGED <<lutVars, img>>

\* UpdateOkOnly is the faulty variant of update whose completion check
\* matches the message only, not the disconnection.
UpdateOkOnly(clicked) ==
  LET finished == /\ gui.is_processing
                  /\ gui.receiver # 0
                  /\ TryRecv(gui.receiver) \in {"Ok"}
      processing == gui.is_processing /\ ~finished
      receiver == IF finished THEN 0 ELSE gui.receiver
  IN /\ clicked => (~processing /\ gui.started < MaxStarts)
     /\ IF clicked
          THEN /\ gui' = [is_processing |-> TRUE, receiver |-> gui.started + 1,
                          started |-> gui.started + 1]
               /\ thr' = [thr EXCEPT ![gui.started + 1].pc = "lut"]
          ELSE /\ gui' = [gui EXCEPT !.is_processing = processing, !.receiver = receiver]
               /\ thr' = thr
     /\ UNCHANGED <<lutVars, img>>

\* One frame of OpsinApp::update (main.rs 178-290): the completion check of
\* 180-191, then the Start button of 209-274, which is drawn only when
\* is_processing is false; clicked says whether the user pressed it.
Update(clicked) ==
  LET finished == /\ gui.is_processing
                  /\ gui.receiver # 0
                  /\ TryRecv(gui.receiver) \in {"Ok", "Disconnected"}
      processing == gui.is_processing /\ ~finished
      receiver == IF finished THEN 0 ELSE gui.receiver
  IN /\ clicked => (~processing /\ gui.started < MaxStarts)
     /\ IF clicked
          THEN /\ gui' = [is_processing |-> TRUE, receiver |-> gui.started + 1,
                          started |-> gui.started + 1]
               /\ thr' = [thr EXCEPT ![gui.started + 1].pc = "lut"]
          ELSE /\ gui' = [gui EXCEPT !.is_processing = processing, !.receiver = receiver]
               /\ thr' = thr
     /\ UNCHANGED <<lutVars, img>>

\* The worker thread: if let Ok(lut3d) = Lut3D::from_cube(..) (main.rs 238)
ThreadFromCube(t) ==
  /\ thr[t].pc = "lut"
  /\ thr' = [thr EXCEPT ![t].pc = IF from_cube(cube).kind = "ok" THEN "map" ELSE "videos"]
  /\ UNCHANGED <<lutVars, gui, img>>

\* match lut3d.load_or_generate_map(..) (main.rs 242): Ok or Err
ThreadLoadMap(t) ==
  /\ thr[t].pc = "map"
  /\ \E ok \in BOOLEAN : thr' = [thr EXCEPT ![t].pc = IF ok THEN "images" ELSE "videos"]
  /\ UNCHANGED <<lutVars, gui, img>>

\* file_handler::process_images(..) (main.rs 246): it returns, or one of its
\* unwraps panics; the unwinding drops the sender and the thread ends.
ThreadImages(t) ==
  /\ thr[t].pc = "images"
  /\ \E panics \in BOOLEAN :
       thr' = [thr EXCEPT ![t] = IF panics THEN [@ EXCEPT !.pc = "exit", !.dropped = TRUE]
                                          ELSE [@ EXCEPT !.pc = "videos"]]
  /\ UNCHANGED <<lutVars, gui, img>>

\* file_handler::process_videos(..) (main.rs 268)
ThreadVideos(t) ==
  /\ thr[t].pc = "videos"
  /\ thr' = [thr EXCEPT ![t].pc = "send"]
  /\ UNCHANGED <<lutVars, gui, img>>

\* let _ = sender.send(()) (main.rs 272): the message is queued while the
\* receiver is alive, otherwise send fails and the result is ignored.
ThreadSend(t) ==
  /\ thr[t].pc = "send"
  /\ thr' = [thr EXCEPT ![t] = [@ EXCEPT !.pc = "exit", !.sent = (gui.receiver = t)]]
  /\ UNCHANGED <<lutVars, gui, img>>

\* The closure returns (main.rs 273): the sender is dropped and the thread ends.
ThreadExit(t) ==
  /\ thr[t].pc = "exit"
  /\ thr' = [thr EXCEPT ![t] = [@ EXCEPT !.pc = "ended", !.dropped = TRUE]]
  /\ UNCHANGED <<lutVars, gui, img>>

\* ------------------------------------------------------------------ specifications
\* Two workers on the same LUT file and cache path, interleaved freely.
Next ==
  \E p \in Procs :
    \/ FromCube(p)
    \/ PathExists(p)
    \/ Load(p)
    \/ Generate(p)
    \/ CreateDirAll(p)
    \/ CreateDirFail(p)
    \/ FileCreate(p)
    \/ WriteChunk(p)
    \/ WriteFail(p)
    \/ ReturnTable(p)
    \/ Restart(p)

Spec == Init /\ [][Next]_vars

\* One worker at a time (the application starts a worker only when none is
\* running), each applying the returned table to pixels.
Alone(p) == \A q \in Procs \ {p} : pc[q] = "start"

SeqNext ==
  \E p \in Procs :
    \/ Alone(p) /\ FromCube(p)
    \/ Alone(p) /\ PathExists(p)
    \/ Alone(p) /\ Load(p)
    \/ Alone(p) /\ Generate(p)
    \/ Alone(p) /\ CreateDirAll(p)
    \/ Alone(p) /\ CreateDirFail(p)
    \/ Alone(p) /\ FileCreate(p)
    \/ Alone(p) /\ WriteChunk(p)
    \/ Alone(p) /\ WriteFail(p)
    \/ Alone(p) /\ ReturnTable(p)
    \/ Alone(p) /\ ApplyPrecomputed(p)
    \/ Alone(p) /\ Restart(p)

SeqSpec == Init /\ [][SeqNext]_vars

\* The parser alone.
ParseNext == \E p \in Procs : FromCube(p) \/ Restart(p)

ParseSpec == ParseInit /\ [][ParseNext]_vars

\* Two invocations on a cache path that holds no file, no I/O failure.
RaceInit == Init /\ cacheAtStart = "absent"

RaceNext ==
  \E p \in Procs :
    \/ FromCube(p)
    \/ PathExists(p)
    \/ Load(p)
    \/ Generate(p)
    \/ CreateDirAll(p)
    \/ FileCreate(p)
    \/ WriteChunk(p)
    \/ ReturnTable(p)

RaceSpec == RaceInit /\ [][RaceNext]_vars

\* The sampling functions alone, on every grid of EngineTexts.
EngineInit ==
  /\ cube \in EngineTexts
  /\ cacheAtStart = "absent"
  /\ fileExists = FALSE
  /\ fileBytes = <<>>
  /\ dirExists = FALSE
  /\ WorkersInit
  /\ AppInit

EngineNext ==
  \E p \in Procs :
    \/ Alone(p) /\ FromCube(p)
    \/ Alone(p) /\ ApplyLut(p)
    \/ Alone(p) /\ ApplyLutTrilinear(p)

EngineSpec == EngineInit /\ [][EngineNext]_vars

\* One call of process_images on each listing of the input directory.
ImagesInit ==
  /\ cube = IdentityCube(1)
  /\ cacheAtStart = "absent"
  /\ fileExists = FALSE
  /\ fileBytes = <<>>
  /\ dirExists = FALSE
  /\ WorkersInit
  /\ GuiIdle
  /\ \E e \in BOOLEAN, l \in DistinctListings :
       img = [pc |-> "start", exists |-> e, files |-> IF e THEN l ELSE <<>>, i |-> 1, out |-> {}]

ImagesNext == ImagesWalk \/ ImagesFile \/ ImagesReturn

ImagesSpec == ImagesInit /\ [][ImagesNext]_vars

\* The application: update frames, with or without a click on Start, and
\* the threads it spawns.
GuiInit ==
  /\ cube \in GuiCubes
  /\ cacheAtStart = "absent"
  /\ fileExists = FALSE
  /\ fileBytes = <<>>
  /\ dirExists = FALSE
  /\ WorkersInit
  /\ AppInit

GuiNext ==
  \/ \E clicked \in BOOLEAN : Update(clicked)
  \/ \E t \in Threads :
       \/ ThreadFromCube(t)
       \/ ThreadLoadMap(t)
       \/ ThreadImages(t)
       \/ ThreadVideos(t)
       \/ ThreadSend(t)
       \/ ThreadExit(t)

GuiSpec == GuiInit /\ [][GuiNext]_vars

\* The application under its scheduling: eframe calls update again within
\* 100 ms of every frame (request_repaint_after, main.rs 289), so a frame
\* without a click that has something to observe is eventually run; a
\* spawned thread is scheduled and every call it makes returns or panics.
\* No click is ever forced.
ThreadStep(t) ==
  \/ ThreadFromCube(t)
  \/ ThreadLoadMap(t)
  \/ ThreadImages(t)
  \/ ThreadVideos(t)
  \/ ThreadSend(t)
  \/ ThreadExit(t)

FairGuiSpec ==
  /\ GuiInit
  /\ [][GuiNext]_vars
  /\ WF_vars(Update(FALSE))
  /\ \A t \in Threads : WF_vars(ThreadStep(t))

\* ------------------------------------------------------------------ properties
FileComplete == fileExists /\ Len(fileBytes) = TableLen
Looked(p) == pc[p] \in {"applied", "panicked"}

\* C1: when no file exists at the cache path, the three bytes that
\* apply_precomputed reads for (r,g,b) from the table load_or_generate_map
\* returns are the result of apply_lut_trilinear for the same grid and (r,g,b):
\* generation places the sample for (r,g,b) at ((r<<16)|(g<<8)|b)*3.
C1_TableIsFaithfulCache ==
  \A p \in Procs :
    (Looked(p) /\ branch[p] = "generate") =>
      /\ ~px[p].panic
      /\ px[p].out = apply_lut_trilinear(lut[p], px[p].in[1], px[p].in[2], px[p].in[3])

C1_Witness ==
  \E p \in Procs :
    /\ pc[p] = "applied"
    /\ branch[p] = "generate"
    /\ px[p].in = <<1, ChanMax, 0>>
    /\ px[p].out = <<1, ChanMax, 0>>

\* C2: two concurrent invocations on a cache path that initially does not
\* exist never corrupt each other: each one that returns successfully returns
\* the complete table of the grid, never a partially written file.
C2_RaceNotCorrupting ==
  \A p \in Procs :
    (pc[p] = "returned" /\ ret[p].kind = "ok") => ret[p].bytes = GenTable(lut[p])

\* C3: a write of the generated table that fails part-way returns an I/O
\* error and leaves no partially written file at the cache path, so no later
\* call on a path that held no file returns a truncated table.
C3_NoPartialFileAfterFailedWrite ==
  \A p \in Procs :
    /\ (pc[p] = "returned" /\ ret[p] = RetErr("write") /\ off[p] > 0) =>
         (fileExists => FileComplete)
    /\ (cacheAtStart = "absent" /\ ret[p].kind = "ok") => Len(ret[p].bytes) = TableLen

\* C4: if a file exists at the cache path, load_or_generate_map returns
\* exactly that file's bytes whatever the grid is (no check of length or
\* origin), generates nothing, and leaves the file and its directory unchanged.
C4_LoadReturnsFileVerbatim ==
  [][\A p \in Procs :
       (pc[p] = "load" /\ pc'[p] = "returned") =>
         /\ ret'[p] = RetOk(fileBytes)
         /\ table[p] = <<>> /\ table'[p] = <<>>
         /\ fileExists' = fileExists /\ fileBytes' = fileBytes
         /\ dirExists' = dirExists]_vars

C4_Witness ==
  \E p \in Procs :
    /\ pc[p] = "returned"
    /\ branch[p] = "load"
    /\ lut[p].kind = "ok"
    /\ ret[p] = RetOk(ShortFile)
    /\ fileBytes = ShortFile

\* C5: when no file exists at the cache path and load_or_generate_map returns
\* successfully, the directory exists before the write, the file then holds
\* exactly the returned buffer of TableLen bytes, and every later call returns
\* the same bytes without generating: the complete file is never rewritten
\* and a load returns it as it is.
C5_GenerateThenLoadRoundTrip ==
  /\ [](\A p \in Procs :
          /\ pc[p] = "write" => (dirExists /\ fileExists)
          /\ (pc[p] \in {"returned", "applied", "panicked"}
                /\ branch[p] = "generate" /\ ret[p].kind = "ok") =>
               /\ FileComplete
               /\ fileBytes = ret[p].bytes
               /\ ret[p].bytes = GenTable(lut[p]))
  /\ [][/\ FileComplete => (fileExists' /\ fileBytes' = fileBytes)
        /\ \A p \in Procs :
             (FileComplete /\ pc[p] = "parsed" /\ pc'[p] # "parsed") => pc'[p] = "load"
        /\ \A p \in Procs :
             (pc[p] = "load" /\ pc'[p] = "returned") =>
               (ret'[p] = RetOk(fileBytes) /\ table'[p] = <<>>)]_vars

C5_Witness ==
  \E p \in Procs :
    /\ cacheAtStart = "absent"
    /\ pc[p] = "returned"
    /\ branch[p] = "load"
    /\ ret[p] = RetOk(GenTable(lut[p]))
    /\ fileBytes = ret[p].bytes

\* C6: a cached table whose length is not TableLen is rejected at table load
\* with a CorruptTable failure; it is never returned to the caller and
\* indexed by apply_precomputed.
C6_CorruptTableRejected ==
  \A p \in Procs :
    /\ ret[p].kind = "ok" => Len(ret[p].bytes) = TableLen
    /\ (pc[p] = "returned" /\ branch[p] = "load" /\ ~FileComplete) =>
         ret[p] = RetErr("CorruptTable")
    /\ pc[p] # "panicked"

\* The input whose slot is the e-th of the table, in base 2^ChanBits.
SlotInput(e) == <<e \div (Radix * Radix), (e \div Radix) % Radix, e % Radix>>

IsSizeLine(l) == Len(l) > 0 /\ l[1] = "LUT_3D_SIZE"
IsDomainLine(l) == Len(l) > 0 /\ l[1] \in {"DOMAIN_MIN", "DOMAIN_MAX"}
IsIgnoredLine(l) == Len(l) = 0 \/ l[1] \in {"#", "#c", "TITLE"}
IsDataLineOf(l) == ~IsSizeLine(l) /\ ~IsDomainLine(l) /\ ~IsIgnoredLine(l)
NumberTokens == {"0", "0.2", "0.5", "0.8", "1", "2", "3", "4"}
AllNumbers(l, from) == \A i \in from..Len(l) : l[i] \in NumberTokens
Lines(t, P(_)) == { i \in 1..Len(t) : P(t[i]) }
Parsed(p) == lut[p].kind # "none"

\* The size a text declares when it has exactly one LUT_3D_SIZE line, and 0
\* otherwise.
DeclaredSize(t) ==
  IF Cardinality(Lines(t, IsSizeLine)) = 1
    THEN LET l == t[CHOOSE i \in Lines(t, IsSizeLine) : TRUE]
         IN IF Len(l) = 2 /\ l[2] \in {"1", "2", "3", "4"}
              THEN (CASE l[2] = "1" -> 1 [] l[2] = "2" -> 2 [] l[2] = "3" -> 3 [] OTHER -> 4)
              ELSE 0
    ELSE 0

\* A valid cube text: one size line, well-formed DOMAIN lines, data lines of
\* three numbers, as many as the cube of the declared size.
ValidCube(t) ==
  /\ DeclaredSize(t) >= 1
  /\ \A i \in Lines(t, IsDomainLine) : Len(t[i]) = 4 /\ AllNumbers(t[i], 2)
  /\ \A i \in Lines(t, IsDataLineOf) : Len(t[i]) = 3 /\ AllNumbers(t[i], 1)
  /\ Cardinality(Lines(t, IsDataLineOf)) = DeclaredSize(t) * DeclaredSize(t) * DeclaredSize(t)

HasBadDataToken(t) == \E i \in Lines(t, IsDataLineOf) : ~AllNumbers(t[i], 1)

\* C8: parsing a text with a token that is no number in a data line fails
\* with a MalformedNumber error; no default value is put in its place.
C8_MalformedNumberRejected ==
  \A p \in Procs :
    (Parsed(p) /\ HasBadDataToken(cube)) =>
      (lut[p].kind = "err" /\ lut[p].msg = "MalformedNumber")

\* C9: a valid cube text that declares size N and has exactly N^3 data lines,
\* with TITLE, comment, blank and DOMAIN lines anywhere, parses to a grid of
\* size N with exactly N^3 samples.
C9_ValidCubeParses ==
  \A p \in Procs :
    (Parsed(p) /\ ValidCube(cube)) =>
      /\ lut[p].kind = "ok"
      /\ lut[p].size = DeclaredSize(cube)
      /\ Len(lut[p].data) = DeclaredSize(cube) * DeclaredSize(cube) * DeclaredSize(cube)

C9_Witness ==
  \E p \in Procs :
    /\ lut[p].kind = "ok"
    /\ ValidCube(cube)
    /\ lut[p].size = 2
    /\ Len(lut[p].data) = 8
    /\ cube[4] = <<"TITLE", "my", "lut">>

\* The parser's locals when the loop over the lines ends.
AtEnd == ParseLines(ParserInit, cube)
Cube3(n) == n * n * n
MissingSizeMsg == "LUT_3D_SIZE is missing or invalid."
MismatchMsg == "LUT data size mismatch."

SizeValueLines(t) == SelectSeq(t, LAMBDA l : IsSizeLine(l) /\ Len(l) >= 2)

\* No directive set a size that is not zero: there is no LUT_3D_SIZE line
\* with a value, or the last one's value is 0 or is no unsigned integer.
NoSizeSet(t) ==
  \/ SizeValueLines(t) = <<>>
  \/ SizeValueLines(t)[Len(SizeValueLines(t))][2] \notin {"1", "2", "3", "4"}

\* C11: parsing fails with the missing-size error if no LUT_3D_SIZE directive
\* set the size or the size is zero (a LUT_3D_SIZE line with no value or with
\* an unparseable value included), whatever the number of samples: the check
\* comes before the sample-count check.
C11_MissingSizeFirst ==
  \A p \in Procs :
    (Parsed(p) /\ NoSizeSet(cube)) => lut[p] = LutErr(MissingSizeMsg)

C11_Witness ==
  \E p \in Procs :
    /\ lut[p] = LutErr(MissingSizeMsg)
    /\ \E i \in 1..Len(cube) : cube[i] = <<"LUT_3D_SIZE", "abc">>
    /\ Cardinality(Lines(cube, IsDataLineOf)) = 8

\* C12: the LUT_3D_SIZE directive is required exactly once: a text with no
\* LUT_3D_SIZE line, or with more than one, does not parse to a grid.
C12_SizeExactlyOnce ==
  \A p \in Procs :
    (Parsed(p) /\ Cardinality(Lines(cube, IsSizeLine)) # 1) => lut[p].kind # "ok"

\* The data lines of a text, in file order, and the value of a number token
\* in tenths.
DataLinesOf(t) == SelectSeq(t, IsDataLineOf)
NumberValue(tok) ==
  CASE tok = "0" -> 0 [] tok = "0.2" -> 2 [] tok = "0.5" -> 5 [] tok = "0.8" -> 8
    [] tok = "1" -> 10 [] tok = "2" -> 20 [] tok = "3" -> 30 [] OTHER -> 40
LineValues(l) == [i \in 1..Len(l) |-> NumberValue(l[i])]

\* C13: every line that is no directive, no comment and not empty is a data
\* line of exactly three tokens, appended in file order: after a successful
\* parse the k-th data line of the file is samples[k], and the sample fetched
\* for grid coordinate (r,g,b) is data line r + g*N + b*N^2.
C13_DataLinesAreSamplesInOrder ==
  \A p \in Procs :
    lut[p].kind = "ok" =>
      /\ \A k \in 1..Len(DataLinesOf(cube)) : Len(DataLinesOf(cube)[k]) = 3
      /\ Len(lut[p].data) = Len(DataLinesOf(cube))
      /\ \A k \in 1..Len(DataLinesOf(cube)) :
           AllNumbers(DataLinesOf(cube)[k], 1) =>
             (k <= Len(lut[p].data) /\ lut[p].data[k] = LineValues(DataLinesOf(cube)[k]))
      /\ \A r \in 0..(lut[p].size - 1), g \in 0..(lut[p].size - 1), b \in 0..(lut[p].size - 1) :
           LET k == r + g * lut[p].size + b * lut[p].size * lut[p].size + 1
           IN (k <= Len(DataLinesOf(cube)) /\ AllNumbers(DataLinesOf(cube)[k], 1)) =>
                Corner(lut[p], r, g, b) = LineValues(DataLinesOf(cube)[k])

\* A worker that sampled an input in both modes.
Sampled(p) == pc[p] = "sampled"

\* The input of worker p lands on a grid index on all three axes: the scaled
\* coordinate of each channel is an integer.
Scale(v, mn, mx, n) ==
  IF mx > mn THEN <<(10 * v - mn * ChanMax) * (n - 1), ChanMax * (mx - mn)>>
  ELSE <<(mn * ChanMax - 10 * v) * (n - 1), ChanMax * (mn - mx)>>
OnAxis(v, mn, mx, n) ==
  /\ mx # mn
  /\ Scale(v, mn, mx, n)[1] % Scale(v, mn, mx, n)[2] = 0
  /\ Scale(v, mn, mx, n)[1] \div Scale(v, mn, mx, n)[2] \in 0..(n - 1)
OnGrid(p) ==
  \A k \in 1..3 : OnAxis(px[p].in[k], lut[p].domain_min[k], lut[p].domain_max[k], lut[p].size)
GridPoint(p) ==
  [k \in 1..3 |->
     Scale(px[p].in[k], lut[p].domain_min[k], lut[p].domain_max[k], lut[p].size)[1]
       \div Scale(px[p].in[k], lut[p].domain_min[k], lut[p].domain_max[k], lut[p].size)[2]]
\* The 8-bit conversion of a stored sample: clamp to [0, 1], scale, truncate.
Convert(x) ==
  IF x = Inf THEN ChanMax
  ELSE IF x >= 10 THEN ChanMax
  ELSE IF x <= 0 THEN 0
  ELSE (x * ChanMax) \div 10
SampleAt(p, pt) ==
  lut[p].data[pt[1] + pt[2] * lut[p].size + pt[3] * lut[p].size * lut[p].size + 1]

\* C14: for every grid and every input whose scaled coordinate is an integer
\* on all three axes, trilinear and nearest sampling return the same output,
\* the 8-bit conversion of the sample stored at that grid point.
C14_ModesAgreeOnGridPoints ==
  \A p \in Procs :
    (Sampled(p) /\ OnGrid(p)) =>
      /\ px[p].trilinear = px[p].nearest
      /\ px[p].nearest = [k \in 1..3 |-> Convert(SampleAt(p, GridPoint(p))[k])]

\* A channel value at or below the lower domain bound, at or above the upper.
Below(v, mn) == 10 * v <= mn * ChanMax
Above(v, mx) == 10 * v >= mx * ChanMax
ProperDomain(p) == \A k \in 1..3 : lut[p].domain_min[k] < lut[p].domain_max[k]

\* The input of worker p with every channel at or below the lower bound
\* replaced by 0 and every channel at or above the upper bound by the largest
\* channel value.
Extreme(p) ==
  [k \in 1..3 |->
     IF Below(px[p].in[k], lut[p].domain_min[k]) THEN 0
     ELSE IF Above(px[p].in[k], lut[p].domain_max[k]) THEN ChanMax
     ELSE px[p].in[k]]
\* The grid coordinate on axis k of a flat index.
AxisOf(flat, k, n) ==
  CASE k = 1 -> flat % n [] k = 2 -> (flat \div n) % n [] OTHER -> flat \div (n * n)

\* C15: inputs outside the declared domain clamp to the grid boundary in both
\* modes: a channel value at or below domain_min gives the same output as
\* every other such value (the one exactly at domain_min and 0 included), a
\* value at or above domain_max the same as every other such value, and the
\* nearest grid coordinate of such a channel is the first or the last one.
C15_OutOfDomainClamps ==
  \A p \in Procs :
    (Sampled(p) /\ ProperDomain(p)) =>
      /\ px[p].nearest = apply_lut(lut[p], Extreme(p)[1], Extreme(p)[2], Extreme(p)[3])
      /\ px[p].trilinear = apply_lut_trilinear(lut[p], Extreme(p)[1], Extreme(p)[2], Extreme(p)[3])
      /\ \A k \in 1..3 :
           /\ Below(px[p].in[k], lut[p].domain_min[k]) => AxisOf(px[p].flat, k, lut[p].size) = 0
           /\ Above(px[p].in[k], lut[p].domain_max[k]) =>
                AxisOf(px[p].flat, k, lut[p].size) = lut[p].size - 1

C15_Witness ==
  \E p \in Procs :
    /\ Sampled(p) /\ ProperDomain(p) /\ lut[p].size >= 2
    /\ px[p].in[1] > 0 /\ Below(px[p].in[1], lut[p].domain_min[1])
    /\ px[p].in[2] > 0 /\ ~Below(px[p].in[2], lut[p].domain_min[2])
    /\ px[p].in[2] < ChanMax /\ ~Above(px[p].in[2], lut[p].domain_max[2])
    /\ px[p].in # Extreme(p)
    /\ px[p].trilinear # <<0, 0, 0>>

\* The number of samples of the grid of worker p.
Samples(p) == lut[p].size * lut[p].size * lut[p].size

\* C19: for any grid with size >= 1 and size^3 samples, whatever its domain
\* bounds, and any input, the flat index of nearest sampling and each of the
\* eight corner indices of trilinear sampling is less than size^3: the
\* out-of-bounds branch of apply_lut is never taken and trilinear sampling
\* reads inside the samples.
C19_IndicesInBounds ==
  \A p \in Procs :
    Sampled(p) =>
      /\ lut[p].size >= 1 /\ Len(lut[p].data) = Samples(p)
      /\ px[p].flat \in 0..(Samples(p) - 1)
      /\ ~px[p].oob
      /\ px[p].corners # {}
      /\ \A i \in px[p].corners : i \in 0..(Samples(p) - 1)

\* The last sample is read in both modes.
C19_Witness ==
  \E p \in Procs :
    /\ Sampled(p) /\ lut[p].size >= 2
    /\ px[p].flat = Samples(p) - 1
    /\ (Samples(p) - 1) \in px[p].corners

\* The grid of worker p is the identity LUT of size 2 with the default
\* domain: each of the 8 corner samples is its own normalized coordinates.
IdentityGrid2(p) ==
  /\ lut[p].kind = "ok" /\ lut[p].size = 2
  /\ lut[p].domain_min = <<0, 0, 0>> /\ lut[p].domain_max = <<10, 10, 10>>
  /\ \A x \in 0..1, y \in 0..1, z \in 0..1 :
       lut[p].data[x + 2 * y + 4 * z + 1] = <<10 * x, 10 * y, 10 * z>>
Dist(a, b) == IF a >= b THEN a - b ELSE b - a

\* C16: for the identity LUT of size 2 with default domain, trilinear sampling
\* with the truncating conversion yields, for any input, an output that
\* differs from the input by at most 1 in each channel, whichever way the
\* f32 operations round.
C16_IdentityWithinOne ==
  \A p \in Procs :
    (Sampled(p) /\ IdentityGrid2(p)) =>
      /\ px[p].trilinear \in px[p].rounded
      /\ \A o \in px[p].rounded : \A k \in 1..3 : Dist(o[k], px[p].in[k]) <= 1

\* An input between grid points whose output may be the byte below.
C16_Witness ==
  \E p \in Procs :
    /\ Sampled(p) /\ IdentityGrid2(p)
    /\ px[p].in = <<1, ChanMax - 1, 2>>
    /\ px[p].trilinear = px[p].in
    /\ <<0, ChanMax - 2, 1>> \in px[p].rounded

\* Worker p generated a table and returned it.
Generated(p) == branch[p] = "generate" /\ ret[p].kind = "ok"

ImageExts == {"jpg", "JPG", "jpeg", "JPEG", "png", "PNG"}
\* The output file at the relative path of f, with a suffix on its name.
OutAt(f, suffix, what) ==
  [path |-> [root |-> "out", dir |-> f.dir, name |-> <<f.stem, f.ext>> \o suffix],
   what |-> what]

\* C18: when process_images returns, every file found under the input
\* directory has an output at the same relative path under the output
\* directory: an image (jpg, jpeg, png in any case) has a _RAW copy and a
\* processed version, every other file, one with no extension included, is
\* copied as it is.
C18_EveryFileHasOutput ==
  (img.pc = "done" /\ img.exists) =>
    \A i \in 1..Len(img.files) :
      LET f == img.files[i]
      IN IF f.ext \in ImageExts
           THEN /\ OutAt(f, <<"_RAW">>, "original") \in img.out
                /\ OutAt(f, <<>>, "processed") \in img.out
           ELSE OutAt(f, <<>>, "original") \in img.out

\* A thread that has not yet signalled its end: it has neither sent the
\* completion message nor dropped its sender.
Running(t) == thr[t].pc \in {"lut", "map", "images", "videos", "send"}
Signalled(t) == thr[t].sent \/ thr[t].dropped

\* C20: after any sequence of update frames and Start clicks at most one
\* worker thread is processing; is_processing is true while one is; when
\* is_processing is false the receiver is None; a worker is spawned only in a
\* frame that leaves is_processing true and in which is_processing was false
\* or the previous worker's completion or disconnection was observed; and
\* is_processing goes back to false only after the message or the
\* disconnection of the receiver's channel.
C20_AtMostOneWorker ==
  /\ [](/\ Cardinality({t \in Threads : Running(t)}) <= 1
        /\ \A t \in Threads : Running(t) => (gui.is_processing /\ gui.receiver = t)
        /\ ~gui.is_processing => gui.receiver = 0)
  /\ [][/\ \A t \in Threads :
             (thr[t].pc = "unspawned" /\ thr'[t].pc # "unspawned") =>
               /\ gui'.is_processing /\ gui'.receiver = t
               /\ gui.is_processing => (gui.receiver # 0 /\ Signalled(gui.receiver))
        /\ (gui.is_processing /\ ~gui'.is_processing) =>
             (gui.receiver # 0 /\ Signalled(gui.receiver))]_vars

\* A second worker is processing while the first one, whose message was
\* observed, has not left its thread yet.
C20_Witness ==
  /\ gui.is_processing /\ gui.receiver = 2
  /\ Running(2)
  /\ thr[1].pc = "exit" /\ thr[1].sent

\* C21: once the worker thread the receiver belongs to has ended, by sending
\* its completion message after video processing or by dropping the sender
\* early (a panic in process_images), a later update frame observes it: the
\* receiver leaves that thread only in such a frame, which sets is_processing
\* to false and the receiver to None unless Start is pressed in the same frame
\* and a new worker is spawned; so the application does not stay in the
\* processing state of an ended worker, and Start can be pressed whenever
\* is_processing is false.  A failure of from_cube or of load_or_generate_map
\* takes the thread to process_videos, and a thread that reaches
\* process_videos sends its completion message.
C21_EndedWorkerIsObserved ==
  /\ \A t \in Threads :
       (gui.receiver = t /\ Signalled(t)) ~> (~gui.is_processing \/ gui.started > t)
  /\ [][\A t \in Threads :
          (gui.receiver = t /\ gui'.receiver # t) =>
            /\ Signalled(t)
            /\ \/ ~gui'.is_processing /\ gui'.receiver = 0 /\ gui'.started = t
               \/ gui'.is_processing /\ gui'.receiver = t + 1 /\ gui'.started = t + 1]_vars
  /\ []((~gui.is_processing /\ gui.started < MaxStarts) => ENABLED Update(TRUE))
  /\ [][\A t \in Threads :
          /\ (thr[t].pc = "lut" /\ thr'[t].pc # "lut") =>
               thr'[t].pc = (IF from_cube(cube).kind = "ok" THEN "map" ELSE "videos")
          /\ (thr[t].pc = "map" /\ thr'[t].pc # "map") => thr'[t].pc \in {"images", "videos"}]_vars
  /\ \A t \in Threads : (thr[t].pc = "videos") ~> thr[t].sent

\* The first worker ended in a panic of process_images and the second by its
\* message; both were observed and the application is idle again.
C21_Witness ==
  /\ thr[1].dropped /\ ~thr[1].sent
  /\ thr[2].sent
  /\ ~gui.is_processing /\ gui.receiver = 0 /\ gui.started = 2

====
